---- MODULE Spec2Model ----
(***************************************************************************)
(* A model of scripts/generate-from-docs.js: the generator that turns a    *)
(* list of endpoint descriptors into MSW handlers (handlers.ts) and        *)
(* TypeScript declarations (api.d.ts).                                     *)
(*                                                                         *)
(* JavaScript strings are modelled as sequences of pieces whose            *)
(* concatenation is the string.  Paths, method names and identifiers are   *)
(* sequences of single characters; the text produced by jsonToTypeScript   *)
(* and JSON.stringify is a sequence of lexemes.                            *)
(***************************************************************************)
EXTENDS Integers, Sequences, FiniteSets, TLC

VARIABLES
    pc,               \* position of main() / of the function under study
    source,           \* process.argv[2]
    document,         \* what the source holds
    spec,             \* what parseApiSpec returned
    dirs,             \* directories created by mkdir
    handlersFile,     \* content of frontend/src/mocks/handlers.ts
    typesFile,        \* content of frontend/src/api.d.ts
    stdout,           \* console.log lines
    stderr,           \* console.error lines
    exitCode,         \* process exit status, -1 while running
    handlersCode,     \* generateHandlers' result
    types,            \* generateTypes: the Map, in insertion order
    typeDefinitions,  \* generateTypes: the document being built
    k,                \* generateTypes: forEach index
    value,            \* jsonToTypeScript argument
    indent,           \* jsonToTypeScript argument
    typeScript,       \* jsonToTypeScript result
    other,            \* a second jsonToTypeScript argument
    otherTypeScript,  \* its result
    path,             \* generateTypeName / pathToFunctionName argument
    typeName,         \* generateTypeName result
    functionName      \* pathToFunctionName result

vars == <<pc, source, document, spec, dirs, handlersFile, typesFile, stdout, stderr,
          exitCode, handlersCode, types, typeDefinitions, k,
          value, indent, typeScript, other, otherTypeScript,
          path, typeName, functionName>>

mainVars  == <<source, document, spec, dirs, handlersFile, typesFile, stdout, stderr,
               exitCode, handlersCode, types, typeDefinitions, k>>
inferVars == <<value, indent, typeScript, other, otherTypeScript>>
nameVars  == <<path, typeName, functionName>>

-----------------------------------------------------------------------------
(* Bounds of the model *)

MaxDepth == 2       \* nesting depth of the sample values
MaxLen == 2         \* length of the sample arrays
MaxIndent == 1      \* largest indent argument given to jsonToTypeScript
MaxPathLen == 3     \* characters of a path after its optional prefix
MaxApis == 2        \* endpoint descriptors in a specification

-----------------------------------------------------------------------------
(* Strings *)

LowerCaseLetters ==
    <<"a","b","c","d","e","f","g","h","i","j","k","l","m",
      "n","o","p","q","r","s","t","u","v","w","x","y","z">>
UpperCaseLetters ==
    <<"A","B","C","D","E","F","G","H","I","J","K","L","M",
      "N","O","P","Q","R","S","T","U","V","W","X","Y","Z">>
Digits == {"0","1","2","3","4","5","6","7","8","9"}

IndexIn(seq, c) == IF \E i \in 1..Len(seq) : seq[i] = c
                   THEN CHOOSE i \in 1..Len(seq) : seq[i] = c
                   ELSE 0

\* String.prototype.toUpperCase / toLowerCase on one character
charToUpperCase(c) ==
    IF IndexIn(LowerCaseLetters, c) > 0
    THEN UpperCaseLetters[IndexIn(LowerCaseLetters, c)] ELSE c
charToLowerCase(c) ==
    IF IndexIn(UpperCaseLetters, c) > 0
    THEN LowerCaseLetters[IndexIn(UpperCaseLetters, c)] ELSE c

toLowerCase(s) == [i \in 1..Len(s) |-> charToLowerCase(s[i])]

\* the regular expression class \w
IsWordChar(c) ==
    \/ IndexIn(LowerCaseLetters, c) > 0
    \/ IndexIn(UpperCaseLetters, c) > 0
    \/ c \in Digits
    \/ c = "_"

RECURSIVE Concat(_)
Concat(seqs) == IF seqs = <<>> THEN <<>> ELSE Head(seqs) \o Concat(Tail(seqs))

RECURSIVE JoinWith(_, _)
JoinWith(seqs, sep) ==
    IF seqs = <<>> THEN <<>>
    ELSE IF Len(seqs) = 1 THEN seqs[1]
    ELSE seqs[1] \o sep \o JoinWith(Tail(seqs), sep)

RECURSIVE Repeat(_, _)
Repeat(s, n) == IF n = 0 THEN <<>> ELSE s \o Repeat(s, n - 1)

startsWith(s, piece) == Len(s) > 0 /\ s[1] = piece

includes(s, c) == \E i \in 1..Len(s) : s[i] = c

\* String.prototype.split(sep) for a one-character separator
RECURSIVE split(_, _)
split(s, sep) ==
    IF ~includes(s, sep) THEN <<s>>
    ELSE LET i == CHOOSE j \in 1..Len(s) :
                      s[j] = sep /\ \A h \in 1..(j - 1) : s[h] # sep
         IN  <<SubSeq(s, 1, i - 1)>> \o split(SubSeq(s, i + 1, Len(s)), sep)

\* all sequences over S of length at most n
RECURSIVE SeqsUpTo(_, _)
SeqsUpTo(S, n) ==
    IF n = 0 THEN {<<>>}
    ELSE LET shorter == SeqsUpTo(S, n - 1)
         IN  shorter \cup {Append(s, x) : s \in {t \in shorter : Len(t) = n - 1}, x \in S}

-----------------------------------------------------------------------------
(* JavaScript values, as JSON.parse produces them (plus undefined, the     *)
(* value of an absent field).  Every value is a record of the same shape;  *)
(* t is the kind, the other fields hold the payload of that kind.          *)

Val(t, s, n, b, keys, items) ==
    [t |-> t, s |-> s, n |-> n, b |-> b, keys |-> keys, items |-> items]

Null      == Val("null", "", 0, FALSE, <<>>, <<>>)
Undefined == Val("undefined", "", 0, FALSE, <<>>, <<>>)
Str(s)    == Val("string", s, 0, FALSE, <<>>, <<>>)
Num(n)    == Val("number", "", n, FALSE, <<>>, <<>>)
Bool(b)   == Val("boolean", "", 0, b, <<>>, <<>>)
Arr(items)      == Val("array", "", 0, FALSE, <<>>, items)
Obj(keys, vals) == Val("object", "", 0, FALSE, keys, vals)

\* the === null test
IsNull(v) == v.t = "null"

\* Array.isArray
Array_isArray(v) == v.t = "array"

\* the typeof operator
typeof(v) == IF v.t \in {"null", "array", "object"} THEN "object" ELSE v.t

\* JavaScript truthiness, as tested by if (requestBody)
Truthy(v) ==
    CASE v.t = "undefined" -> FALSE
      [] v.t = "null"      -> FALSE
      [] v.t = "boolean"   -> v.b
      [] v.t = "number"    -> v.n # 0
      [] v.t = "string"    -> v.s # ""
      [] OTHER             -> TRUE

IndexKeys == <<"0", "1", "2", "3", "4", "5", "6", "7", "8", "9">>

\* Object.entries: the own enumerable [key, value] pairs in enumeration
\* order; an array enumerates its indices.
Object_entries(v) ==
    IF v.t = "array"
    THEN [i \in 1..Len(v.items) |-> [key |-> IndexKeys[i], val |-> v.items[i]]]
    ELSE [i \in 1..Len(v.keys) |-> [key |-> v.keys[i], val |-> v.items[i]]]

-----------------------------------------------------------------------------
(* Type Inferencer: jsonToTypeScript *)

\* value[0], the element whose type stands for the whole array
ItemZeroLast(v) == v.items[Len(v.items)]
ItemZero(v) == v.items[1]

\* the test that sends a value to the array branch
IsArrayBranchNever(v) == FALSE
IsArrayBranch(v) == Array_isArray(v)

RECURSIVE jsonToTypeScript(_, _)
jsonToTypeScript(v, ind) ==
    LET spaces == Repeat(<<"  ">>, ind) IN
    IF IsNull(v) THEN <<"null">>
    ELSE IF IsArrayBranch(v) THEN
        IF Len(v.items) = 0 THEN <<"any[]">>
        ELSE LET itemType == jsonToTypeScript(ItemZero(v), ind) IN
             IF startsWith(itemType, "{")
             THEN itemType \o <<"[]">>
             ELSE <<"(">> \o itemType \o <<")[]">>
    ELSE IF typeof(v) = "object" THEN
        LET entries == Object_entries(v) IN
        IF Len(entries) = 0 THEN <<"Record<string, any>">>
        ELSE LET props == JoinWith(
                     [i \in 1..Len(entries) |->
                         spaces \o <<"  ", entries[i].key, ": ">>
                                \o jsonToTypeScript(entries[i].val, ind + 1)],
                     <<"\n">>)
             IN  <<"{", "\n">> \o props \o <<"\n">> \o spaces \o <<"}">>
    ELSE IF typeof(v) = "string" THEN <<"string">>
    ELSE IF typeof(v) = "number" THEN <<"number">>
    ELSE IF typeof(v) = "boolean" THEN <<"boolean">>
    ELSE <<"any">>

-----------------------------------------------------------------------------
(* The sample values the inferencer is run on *)

Scalars == {Null, Undefined, Str(""), Str("x"), Num(0), Num(1),
            Bool(FALSE), Bool(TRUE)}
Fillers == {Num(1), Str("x")}
Keys == {"a", "b"}

RECURSIVE Samples(_)
Samples(d) ==
    IF d = 0 THEN Scalars \cup {Arr(<<>>), Obj(<<>>, <<>>)}
    ELSE LET inner == Samples(d - 1) IN
         Samples(0)
         \cup {Arr(<<h>> \o t) : h \in inner, t \in SeqsUpTo(Fillers, MaxLen - 1)}
         \cup {Obj(<<key>>, <<h>>) : key \in Keys, h \in inner}
         \cup {Obj(ks, <<h, f>>) :
                  ks \in {p \in Keys \X Keys : p[1] # p[2]}, h \in inner, f \in Fillers}

\* the arrays that share their first element with v
Siblings(v) ==
    IF Array_isArray(v) /\ Len(v.items) > 0
    THEN {Arr(<<v.items[1]>> \o t) : t \in SeqsUpTo(Fillers, MaxLen - 1)}
    ELSE {v}

\* the type-declarations document: one declaration per named type, then one
\* ApiEndpoints entry per endpoint
EmptyDeclarations == [decls |-> <<>>, endpoints |-> <<>>]
NotWritten(content) == [written |-> FALSE, content |-> content]
Written(content)    == [written |-> TRUE, content |-> content]

InitIdleMain ==
    /\ source = "none"
    /\ document = [tag |-> "none", apis |-> <<>>]
    /\ spec = [tag |-> "none", apis |-> <<>>]
    /\ dirs = {}
    /\ handlersFile = NotWritten(<<>>)
    /\ typesFile = NotWritten(EmptyDeclarations)
    /\ stdout = <<>>
    /\ stderr = <<>>
    /\ exitCode = -1
    /\ handlersCode = <<>>
    /\ types = <<>>
    /\ typeDefinitions = EmptyDeclarations
    /\ k = 0

InitIdleInfer ==
    /\ value = Undefined
    /\ indent = 0
    /\ typeScript = <<>>
    /\ other = Undefined
    /\ otherTypeScript = <<>>

InitIdleName ==
    /\ path = <<>>
    /\ typeName = <<>>
    /\ functionName = <<>>

InitInfer ==
    /\ pc = "infer"
    /\ value \in Samples(MaxDepth)
    /\ other \in Siblings(value)
    /\ indent \in 0..MaxIndent
    /\ typeScript = <<>>
    /\ otherTypeScript = <<>>
    /\ InitIdleMain
    /\ InitIdleName

\* one call of jsonToTypeScript on each of the two samples
Infer ==
    /\ pc = "infer"
    /\ typeScript' = jsonToTypeScript(value, indent)
    /\ otherTypeScript' = jsonToTypeScript(other, indent)
    /\ pc' = "inferred"
    /\ UNCHANGED <<value, indent, other>>
    /\ UNCHANGED mainVars
    /\ UNCHANGED nameVars

NextInfer == Infer

SpecInfer == InitInfer /\ [][NextInfer]_vars

-----------------------------------------------------------------------------
(* Reading a type back from the text jsonToTypeScript produced.            *)
(* A type is [kind, names, parts]: an array has its element type as its    *)
(* one part, a record has one name and one part per field, in order.       *)

Ty(kind, names, parts) == [kind |-> kind, names |-> names, parts |-> parts]
Prim(kind)     == Ty(kind, <<>>, <<>>)
ArrayOf(elem)  == Ty("array", <<>>, <<elem>>)
OpenMapping    == Prim("mapping")
RecordOf(names, parts) == Ty("record", names, parts)
Malformed      == Prim("malformed")

Tok(text, i) == IF i >= 1 /\ i <= Len(text) THEN text[i] ELSE "<end>"

RECURSIVE SkipSpaces(_, _)
SkipSpaces(text, i) == IF Tok(text, i) = "  " THEN SkipSpaces(text, i + 1) ELSE i

RECURSIVE WrapArrays(_, _)
WrapArrays(text, r) ==
    IF Tok(text, r.next) = "[]"
    THEN WrapArrays(text, [ty |-> ArrayOf(r.ty), next |-> r.next + 1])
    ELSE r

RECURSIVE ParseType(_, _)
RECURSIVE ParseFields(_, _, _, _)
ParseType(text, i) ==
    LET tok == Tok(text, i) IN
    IF tok \in {"null", "string", "number", "boolean"}
        THEN [ty |-> Prim(tok), next |-> i + 1]
    \* the text any is the rendering of the kind unknown
    ELSE IF tok = "any" THEN [ty |-> Prim("unknown"), next |-> i + 1]
    ELSE IF tok = "any[]" THEN [ty |-> ArrayOf(Prim("unknown")), next |-> i + 1]
    ELSE IF tok = "Record<string, any>" THEN [ty |-> OpenMapping, next |-> i + 1]
    ELSE IF tok = "(" THEN
        LET inner == ParseType(text, i + 1) IN
        IF Tok(text, inner.next) = ")[]"
        THEN [ty |-> ArrayOf(inner.ty), next |-> inner.next + 1]
        ELSE [ty |-> Malformed, next |-> Len(text) + 1]
    ELSE IF tok = "{" /\ Tok(text, i + 1) = "\n"
        THEN WrapArrays(text, ParseFields(text, i + 2, <<>>, <<>>))
    ELSE [ty |-> Malformed, next |-> Len(text) + 1]
ParseFields(text, i, names, parts) ==
    LET j == SkipSpaces(text, i) IN
    IF Tok(text, j) = "}" /\ names # <<>>
        THEN [ty |-> RecordOf(names, parts), next |-> j + 1]
    ELSE IF Tok(text, j + 1) = ": " THEN
        LET f == ParseType(text, j + 2) IN
        IF Tok(text, f.next) = "\n"
        THEN ParseFields(text, f.next + 1, Append(names, text[j]), Append(parts, f.ty))
        ELSE [ty |-> Malformed, next |-> Len(text) + 1]
    ELSE [ty |-> Malformed, next |-> Len(text) + 1]

\* the type a whole text denotes
TypeOfText(text) ==
    LET r == ParseType(text, 1) IN
    IF r.next = Len(text) + 1 THEN r.ty ELSE Malformed

\* the type the inference rules assign to a sample value
RECURSIVE RuleType(_)
RuleType(v) ==
    CASE v.t = "null" -> Prim("null")
      [] v.t = "array" /\ v.items = <<>> -> ArrayOf(Prim("unknown"))
      [] v.t = "array" /\ v.items # <<>> -> ArrayOf(RuleType(Head(v.items)))
      [] v.t = "object" /\ v.keys = <<>> -> OpenMapping
      [] v.t = "object" /\ v.keys # <<>> ->
            RecordOf(v.keys, [i \in 1..Len(v.items) |-> RuleType(v.items[i])])
      [] v.t = "string" -> Prim("string")
      [] v.t = "number" -> Prim("number")
      [] v.t = "boolean" -> Prim("boolean")
      [] OTHER -> Prim("unknown")

\* C4: jsonToTypeScript gives every sample the type of the rules (null;
\* array of unknown or of the first element's type; open mapping or a record
\* with one field per key in enumeration order; string; number; boolean;
\* unknown otherwise), and the indent argument does not change that type.
C4_InferenceRules ==
    pc = "inferred" =>
        /\ TypeOfText(typeScript) = RuleType(value)
        /\ TypeOfText(jsonToTypeScript(value, 0)) = TypeOfText(typeScript)

C4_Witness ==
    /\ pc = "inferred"
    /\ indent = 1
    /\ value = Obj(<<"b", "a">>, <<Obj(<<"a">>, <<Null>>), Str("x")>>)
    /\ typeScript = <<"{", "\n",
                      "  ", "  ", "b", ": ", "{", "\n",
                          "  ", "  ", "  ", "a", ": ", "null", "\n",
                          "  ", "  ", "}", "\n",
                      "  ", "  ", "a", ": ", "string", "\n",
                      "  ", "}">>

\* C5: two non-empty arrays with the same first element get the same type,
\* the one of the array holding that first element alone.
C5_FirstElementOnly ==
    (/\ pc = "inferred"
     /\ Array_isArray(value) /\ Array_isArray(other)
     /\ value.items # <<>> /\ other.items # <<>>
     /\ Head(value.items) = Head(other.items))
    => /\ typeScript = otherTypeScript
       /\ typeScript = jsonToTypeScript(Arr(<<Head(value.items)>>), indent)

C5_Witness ==
    /\ pc = "inferred"
    /\ value = Arr(<<Num(1), Str("x")>>)
    /\ other = Arr(<<Num(1), Num(1)>>)
    /\ typeScript = <<"(", "number", ")[]">>
    /\ otherTypeScript = typeScript

-----------------------------------------------------------------------------
(* Name Deriver: generateTypeName and pathToFunctionName *)

ApiPrefix      == <<"/", "a", "p", "i", "/">>
RequestSuffix  == <<"R", "e", "q", "u", "e", "s", "t">>
ResponseSuffix == <<"R", "e", "s", "p", "o", "n", "s", "e">>

\* .replace(/^\/api\//, '') as a variant that also drops a bare "/api"
stripApiPrefixLoose(p) ==
    IF Len(p) >= 4 /\ SubSeq(p, 1, 4) = SubSeq(ApiPrefix, 1, 4)
    THEN (IF Len(p) >= 5 /\ p[5] = "/" THEN SubSeq(p, 6, Len(p))
          ELSE SubSeq(p, 5, Len(p)))
    ELSE p
\* .replace(/^\/api\//, '')
stripApiPrefix(p) ==
    IF Len(p) >= Len(ApiPrefix) /\ SubSeq(p, 1, Len(ApiPrefix)) = ApiPrefix
    THEN SubSeq(p, Len(ApiPrefix) + 1, Len(p))
    ELSE p

\* .replace(/\//g, '_')
replaceSlashes(p) == [i \in 1..Len(p) |-> IF p[i] = "/" THEN "_" ELSE p[i]]

\* .replace(/\{|\}/g, '')
removeBraces(p) == SelectSeq(p, LAMBDA c : c \notin {"{", "}"})

\* part.charAt(0).toUpperCase() + part.slice(1), as a variant lower-casing the rest
titleCaseLowerRest(part) ==
    IF part = <<>> THEN <<>>
    ELSE <<charToUpperCase(part[1])>> \o toLowerCase(SubSeq(part, 2, Len(part)))
\* part.charAt(0).toUpperCase() + part.slice(1)
titleCase(part) ==
    IF part = <<>> THEN <<>>
    ELSE <<charToUpperCase(part[1])>> \o SubSeq(part, 2, Len(part))

generateTypeName(p, suffix) ==
    LET segments == split(removeBraces(replaceSlashes(stripApiPrefix(p))), "_")
        parts == Concat([i \in 1..Len(segments) |-> titleCase(segments[i])])
    IN  parts \o suffix

pathToFunctionName(p) ==
    LET segments == split(removeBraces(replaceSlashes(stripApiPrefix(p))), "_")
    IN  Concat([i \in 1..Len(segments) |-> titleCase(segments[i])])

(* The paths the deriver is run on *)

PathChars == {"/", "{", "}", "_", "a", "B"}
UsersPath       == <<"/","a","p","i","/","u","s","e","r","s">>
UsersIdPath     == UsersPath \o <<"/", "{", "i", "d", "}">>
UsersIdPostPath == UsersIdPath \o <<"/","p","o","s","t","s","/","{","p","o","s","t","I","d","}">>
BareApiPath     == <<"/", "a", "p", "i">>

SamplePaths ==
    {prefix \o rest : prefix \in {<<>>, ApiPrefix, BareApiPath},
                      rest \in SeqsUpTo(PathChars, MaxPathLen)}
    \cup {UsersPath, UsersIdPath, UsersIdPostPath}

InitName ==
    /\ pc = "name"
    /\ path \in SamplePaths
    /\ typeName = <<>>
    /\ functionName = <<>>
    /\ InitIdleMain
    /\ InitIdleInfer

\* one call of generateTypeName, with either suffix
DeriveTypeName ==
    /\ pc = "name"
    /\ \E suffix \in {RequestSuffix, ResponseSuffix} :
           typeName' = generateTypeName(path, suffix)
    /\ pc' = "typeNamed"
    /\ UNCHANGED <<path, functionName>>
    /\ UNCHANGED mainVars
    /\ UNCHANGED inferVars

\* one call of pathToFunctionName
DeriveFunctionName ==
    /\ pc = "typeNamed"
    /\ functionName' = pathToFunctionName(path)
    /\ pc' = "named"
    /\ UNCHANGED <<path, typeName>>
    /\ UNCHANGED mainVars
    /\ UNCHANGED inferVars

NextName == DeriveTypeName \/ DeriveFunctionName

SpecName == InitName /\ [][NextName]_vars

\* the fragment read off the path in one pass: after the /api/ prefix, the
\* characters / and _ end a segment, braces are dropped, and the first
\* character kept in a segment is upper-cased
RECURSIVE FragmentScan(_, _)
FragmentScan(p, atStart) ==
    IF p = <<>> THEN <<>>
    ELSE IF Head(p) \in {"/", "_"} THEN FragmentScan(Tail(p), TRUE)
    ELSE IF Head(p) \in {"{", "}"} THEN FragmentScan(Tail(p), atStart)
    ELSE <<IF atStart THEN charToUpperCase(Head(p)) ELSE Head(p)>>
         \o FragmentScan(Tail(p), FALSE)

HasApiPrefix(p) == Len(p) >= 5 /\ SubSeq(p, 1, 5) = <<"/", "a", "p", "i", "/">>

Fragment(p) == FragmentScan(IF HasApiPrefix(p) THEN SubSeq(p, 6, Len(p)) ELSE p, TRUE)

C7_DegenerateBothEmpty ==
    (pc = "named" /\ path \in {ApiPrefix, BareApiPath}) =>
        /\ functionName = <<>>
        /\ typeName \in {RequestSuffix, ResponseSuffix}

\* C7 amended: the path /api/ derives the empty fragment and the bare type
\* names Request and Response; the path /api keeps its text and derives the
\* fragment Api and the type names ApiRequest and ApiResponse.
C7_DegenerateAmended ==
    pc = "named" =>
        /\ path = ApiPrefix =>
              /\ functionName = <<>>
              /\ typeName \in {RequestSuffix, ResponseSuffix}
        /\ path = BareApiPath =>
              /\ functionName = <<"A", "p", "i">>
              /\ typeName \in {<<"A", "p", "i">> \o RequestSuffix,
                               <<"A", "p", "i">> \o ResponseSuffix}

C7_Witness ==
    /\ pc = "named"
    /\ path = ApiPrefix
    /\ functionName = <<>>
    /\ typeName = ResponseSuffix

-----------------------------------------------------------------------------
(* Mock-handler generation: generateHandlers *)

DefaultStatusCode == 200

\* path.replace(/\{(\w+)\}/g, ':$1')
RECURSIVE WordRun(_)
WordRun(p) == IF p # <<>> /\ IsWordChar(Head(p)) THEN 1 + WordRun(Tail(p)) ELSE 0

RECURSIVE replaceParams(_)
replaceParams(p) ==
    IF p = <<>> THEN <<>>
    ELSE IF Head(p) = "{" THEN
        LET n == WordRun(Tail(p)) IN
        IF n >= 1 /\ Len(p) >= n + 2 /\ p[n + 2] = "}"
        THEN <<":">> \o SubSeq(p, 2, n + 1) \o replaceParams(SubSeq(p, n + 3, Len(p)))
        ELSE <<"{">> \o replaceParams(Tail(p))
    ELSE <<Head(p)>> \o replaceParams(Tail(p))

\* JSON.stringify(value, null, n) inside a template literal; the white space
\* of the pretty-printing is left out
RECURSIVE JSON_stringify(_, _)
JSON_stringify(v, nested) ==
    CASE v.t = "undefined" -> IF nested THEN <<"null">> ELSE <<"undefined">>
      [] v.t = "null"    -> <<"null">>
      [] v.t = "boolean" -> IF v.b THEN <<"true">> ELSE <<"false">>
      [] v.t = "number"  -> <<ToString(v.n)>>
      [] v.t = "string"  -> <<"\"", v.s, "\"">>
      [] v.t = "array"   ->
            <<"[">> \o JoinWith([i \in 1..Len(v.items) |->
                                    JSON_stringify(v.items[i], TRUE)], <<",">>)
                    \o <<"]">>
      [] v.t = "object"  ->
            LET kept == SelectSeq([i \in 1..Len(v.keys) |->
                                      [key |-> v.keys[i], val |-> v.items[i]]],
                                  LAMBDA e : e.val.t # "undefined")
            IN <<"{">> \o JoinWith([i \in 1..Len(kept) |->
                                       <<"\"", kept[i].key, "\"", ":">>
                                       \o JSON_stringify(kept[i].val, TRUE)], <<",">>)
                       \o <<"}">>

\* the destructuring default statusCode = 200
statusCodeOf(api) ==
    IF api.statusCode.t = "undefined" THEN Num(DefaultStatusCode) ELSE api.statusCode

\* the methods the handler generator has a branch for
HandledMethods ==
    {<<"g","e","t">>, <<"p","o","s","t">>, <<"p","u","t">>, <<"p","a","t","c","h">>,
     <<"d","e","l","e","t","e">>}

BodyMethods == {<<"p","o","s","t">>, <<"p","u","t">>, <<"p","a","t","c","h">>}

\* the callback of apis.map: the text of one handler, or the empty text that
\* join() makes of undefined
handlerOf(api) ==
    LET methodLower == toLowerCase(api.method)
        pathWithParams == replaceParams(api.path)
        head == <<"  // ">> \o api.method \o <<" ">> \o api.path
                \o <<"\n  http.">> \o methodLower \o <<"('">>
        statusText == JSON_stringify(statusCodeOf(api), FALSE)
    IN
    IF methodLower \notin HandledMethods THEN <<>>
    ELSE IF methodLower = <<"g","e","t">> THEN
        IF includes(api.path, "{") \/ includes(api.path, ":")
        THEN head \o pathWithParams
             \o <<"', ({ params }) => {\n    return HttpResponse.json(">>
             \o JSON_stringify(api.response, FALSE) \o <<")\n  })">>
        ELSE head \o api.path
             \o <<"', () => {\n    return HttpResponse.json(">>
             \o JSON_stringify(api.response, FALSE) \o <<")\n  })">>
    ELSE IF methodLower \in BodyMethods THEN
        head \o pathWithParams
        \o <<"', async ({ params, request }) => {\n    ">>
        \o (IF Truthy(api.requestBody)
            THEN <<"const body = await request.json() ", "as ">>
                 \o generateTypeName(api.path, RequestSuffix)
            ELSE <<>>)
        \o <<"\n    return HttpResponse.json(\n      ">>
        \o JSON_stringify(api.response, FALSE)
        \o <<",\n      { status: ">> \o statusText \o <<" }\n    )\n  })">>
    ELSE
        head \o pathWithParams
        \o <<"', ({ params }) => {\n    return HttpResponse.json(\n      ">>
        \o JSON_stringify(api.response, FALSE)
        \o <<",\n      { status: ">> \o statusText \o <<" }\n    )\n  })">>

generateHandlers(apis) ==
    <<"import { http, HttpResponse } from 'msw'\n\n",
      "// Auto-generated handlers from API specification\nexport const handlers = [\n">>
    \o JoinWith([i \in 1..Len(apis) |-> handlerOf(apis[i])], <<",\n\n">>)
    \o <<"\n]\n">>

-----------------------------------------------------------------------------
(* Type-declaration generation: generateTypes *)

HasType(tbl, name) == \E i \in 1..Len(tbl) : tbl[i].name = name

\* Map.set without the has() guard: an existing name takes the new sample
registerTypeOverwrite(tbl, name, sample) ==
    IF HasType(tbl, name)
    THEN [i \in 1..Len(tbl) |->
             IF tbl[i].name = name THEN [name |-> name, sample |-> sample] ELSE tbl[i]]
    ELSE Append(tbl, [name |-> name, sample |-> sample])
\* if (!types.has(name)) types.set(name, sample)
registerType(tbl, name, sample) ==
    IF HasType(tbl, name) THEN tbl
    ELSE Append(tbl, [name |-> name, sample |-> sample])

\* the body of the first apis.forEach
collectTypes(tbl, api) ==
    LET withRequest ==
            IF Truthy(api.requestBody) /\ toLowerCase(api.method) \in BodyMethods
            THEN registerType(tbl, generateTypeName(api.path, RequestSuffix),
                              api.requestBody)
            ELSE tbl
    IN  registerType(withRequest, generateTypeName(api.path, ResponseSuffix),
                     api.response)

\* the body of types.forEach: one exported declaration
declarationOf(entry) ==
    [keyword |-> IF Array_isArray(entry.sample) THEN "type" ELSE "interface",
     name    |-> entry.name,
     body    |-> jsonToTypeScript(entry.sample, 0)]

\* the body of the second apis.forEach: one ApiEndpoints entry; params holds
\* the type of the body parameter, if the entry has one
endpointOf(api) ==
    [name    |-> toLowerCase(api.method) \o pathToFunctionName(api.path),
     params  |-> IF Truthy(api.requestBody)
                 THEN <<generateTypeName(api.path, RequestSuffix)>> ELSE <<>>,
     returns |-> generateTypeName(api.path, ResponseSuffix)]

-----------------------------------------------------------------------------
(* The specifications main is run on *)

UserSample == Obj(<<"id", "name">>, <<Num(1), Str("a")>>)

Payloads ==
    {[requestBody |-> Undefined, response |-> Arr(<<UserSample>>),
      statusCode |-> Undefined],
     [requestBody |-> Obj(<<"name">>, <<Str("x")>>), response |-> Obj(<<"id">>, <<Num(1)>>),
      statusCode |-> Num(201)]}

Methods == {<<"G","E","T">>, <<"p","o","s","t">>, <<"O","P","T","I","O","N","S">>}

\* an endpoint descriptor that has no response field
NoResponseEndpoint ==
    [method |-> <<"G","E","T">>, path |-> UsersPath, requestBody |-> Undefined,
     response |-> Undefined, statusCode |-> Undefined]

\* an endpoint descriptor whose request body is the sample false
FalseBodyEndpoint ==
    [method |-> <<"P","U","T">>, path |-> UsersPath, requestBody |-> Bool(FALSE),
     response |-> Obj(<<"ok">>, <<Bool(TRUE)>>), statusCode |-> Undefined]

DeleteEndpoint ==
    [method |-> <<"D","E","L","E","T","E">>, path |-> UsersIdPath,
     requestBody |-> Undefined, response |-> Null, statusCode |-> Num(204)]

Endpoints ==
    {[method |-> m, path |-> p, requestBody |-> pl.requestBody,
      response |-> pl.response, statusCode |-> pl.statusCode] :
        m \in Methods, p \in {UsersPath, UsersIdPath}, pl \in Payloads}
    \cup {NoResponseEndpoint, FalseBodyEndpoint, DeleteEndpoint}

\* tag tells what the source yields: no content at all, text that is not
\* JSON, the JSON value null, an object whose apis is absent, null, false, an
\* object or a string, or an object whose apis is an array
Documents ==
    {[tag |-> "array", apis |-> a] : a \in SeqsUpTo(Endpoints, MaxApis)}
    \cup {[tag |-> t, apis |-> <<>>] :
             t \in {"unreadable", "malformed", "nullDocument",
                    "apisAbsent", "apisNull", "apisFalse", "apisObject", "apisString"}}

MOCKS_DIR == "frontend/src/mocks"
TYPES_DIR == "frontend/src"

Init ==
    /\ pc = "start"
    /\ \/ source = "none" /\ document = [tag |-> "none", apis |-> <<>>]
       \/ source \in {"file", "url"} /\ document \in Documents
    /\ spec = [tag |-> "none", apis |-> <<>>]
    /\ dirs = {}
    /\ handlersFile = NotWritten(<<>>)
    /\ typesFile = NotWritten(EmptyDeclarations)
    /\ stdout = <<>>
    /\ stderr = <<>>
    /\ exitCode = -1
    /\ handlersCode = <<>>
    /\ types = <<>>
    /\ typeDefinitions = EmptyDeclarations
    /\ k = 0
    /\ InitIdleInfer
    /\ InitIdleName

\* console.error(...) then process.exit(1): the usage exit and the catch block
Fail(message) ==
    /\ stderr' = Append(stderr, message)
    /\ exitCode' = 1
    /\ pc' = "exited"

\* !spec.apis
apisFalsy(sp) == sp.tag \in {"apisAbsent", "apisNull", "apisFalse"}

\* the test that rejects a specification, as a variant without Array.isArray
apisRejectedFalsyOnly(sp) == apisFalsy(sp)
\* !spec.apis || !Array.isArray(spec.apis)
apisRejected(sp) == apisFalsy(sp) \/ sp.tag # "array"

\* if (!source) { usage; exit(1) }
CheckArgs ==
    /\ pc = "start"
    /\ IF source = "none"
       THEN Fail("Usage: node scripts/generate-from-docs.js <google-docs-url-or-file-path>")
       ELSE pc' = "parse" /\ UNCHANGED <<stderr, exitCode>>
    /\ UNCHANGED <<source, document, spec, dirs, handlersFile, typesFile, stdout,
                   handlersCode, types, typeDefinitions, k>>
    /\ UNCHANGED inferVars
    /\ UNCHANGED nameVars

\* const spec = await parseApiSpec(source)
ParseApiSpec ==
    /\ pc = "parse"
    /\ stdout' = IF source = "url" THEN Append(stdout, "Fetching from URL:") ELSE stdout
    /\ IF document.tag \in {"unreadable", "malformed"}
       THEN Fail("Error: cannot read or parse the specification") /\ UNCHANGED spec
       ELSE spec' = document /\ pc' = "check" /\ UNCHANGED <<stderr, exitCode>>
    /\ UNCHANGED <<source, document, dirs, handlersFile, typesFile,
                   handlersCode, types, typeDefinitions, k>>
    /\ UNCHANGED inferVars
    /\ UNCHANGED nameVars

\* if (!spec.apis || !Array.isArray(spec.apis)) throw ...
CheckApis ==
    /\ pc = "check"
    /\ IF spec.tag = "nullDocument"
       THEN Fail("Error: Cannot read properties of null (reading 'apis')")
       ELSE IF apisRejected(spec)
       THEN Fail("Error: Invalid API specification format. Expected { \"apis\": [...] }")
       ELSE pc' = "mkdirMocks" /\ UNCHANGED <<stderr, exitCode>>
    /\ UNCHANGED <<source, document, spec, dirs, handlersFile, typesFile, stdout,
                   handlersCode, types, typeDefinitions, k>>
    /\ UNCHANGED inferVars
    /\ UNCHANGED nameVars

\* await mkdir(MOCKS_DIR, { recursive: true })
MkdirMocks ==
    /\ pc = "mkdirMocks"
    /\ \E ok \in BOOLEAN :
          IF ok
          THEN dirs' = dirs \cup {MOCKS_DIR} /\ pc' = "mkdirTypes"
               /\ UNCHANGED <<stderr, exitCode>>
          ELSE Fail("Error: mkdir failed") /\ UNCHANGED dirs
    /\ UNCHANGED <<source, document, spec, handlersFile, typesFile, stdout,
                   handlersCode, types, typeDefinitions, k>>
    /\ UNCHANGED inferVars
    /\ UNCHANGED nameVars

\* await mkdir(TYPES_DIR, { recursive: true })
MkdirTypes ==
    /\ pc = "mkdirTypes"
    /\ \E ok \in BOOLEAN :
          IF ok
          THEN dirs' = dirs \cup {TYPES_DIR} /\ pc' = "handlers"
               /\ UNCHANGED <<stderr, exitCode>>
          ELSE Fail("Error: mkdir failed") /\ UNCHANGED dirs
    /\ UNCHANGED <<source, document, spec, handlersFile, typesFile, stdout,
                   handlersCode, types, typeDefinitions, k>>
    /\ UNCHANGED inferVars
    /\ UNCHANGED nameVars

\* const handlersCode = generateHandlers(spec.apis)
GenerateHandlers ==
    /\ pc = "handlers"
    /\ IF spec.tag # "array"
       THEN Fail("Error: apis.map is not a function") /\ UNCHANGED handlersCode
       ELSE /\ handlersCode' = generateHandlers(spec.apis)
            /\ pc' = "writeHandlers"
            /\ UNCHANGED <<stderr, exitCode>>
    /\ UNCHANGED <<source, document, spec, dirs, handlersFile, typesFile, stdout,
                   types, typeDefinitions, k>>
    /\ UNCHANGED inferVars
    /\ UNCHANGED nameVars

\* await writeFile(handlers.ts); console.log('Generated handlers.ts')
WriteHandlers ==
    /\ pc = "writeHandlers"
    /\ \E ok \in BOOLEAN :
          IF ok
          THEN /\ handlersFile' = Written(handlersCode)
               /\ stdout' = Append(stdout, "Generated handlers.ts")
               /\ pc' = "collect"
               /\ UNCHANGED <<stderr, exitCode>>
          ELSE Fail("Error: writeFile failed") /\ UNCHANGED <<handlersFile, stdout>>
    /\ UNCHANGED <<source, document, spec, dirs, typesFile,
                   handlersCode, types, typeDefinitions, k>>
    /\ UNCHANGED inferVars
    /\ UNCHANGED nameVars

\* generateTypes: one iteration of the first apis.forEach
CollectTypes ==
    /\ pc = "collect"
    /\ k < Len(spec.apis)
    /\ types' = collectTypes(types, spec.apis[k + 1])
    /\ k' = k + 1
    /\ UNCHANGED <<pc, source, document, spec, dirs, handlersFile, typesFile, stdout,
                   stderr, exitCode, handlersCode, typeDefinitions>>
    /\ UNCHANGED inferVars
    /\ UNCHANGED nameVars

\* generateTypes: types.forEach, then the head of ApiEndpoints
RenderTypes ==
    /\ pc = "collect"
    /\ k = Len(spec.apis)
    /\ typeDefinitions' = [decls |-> [i \in 1..Len(types) |-> declarationOf(types[i])],
                           endpoints |-> <<>>]
    /\ k' = 0
    /\ pc' = "endpoints"
    /\ UNCHANGED <<source, document, spec, dirs, handlersFile, typesFile, stdout,
                   stderr, exitCode, handlersCode, types>>
    /\ UNCHANGED inferVars
    /\ UNCHANGED nameVars

\* generateTypes: one iteration of the second apis.forEach
AppendEndpoint ==
    /\ pc = "endpoints"
    /\ k < Len(spec.apis)
    /\ typeDefinitions' = [typeDefinitions EXCEPT
                              !.endpoints = Append(@, endpointOf(spec.apis[k + 1]))]
    /\ k' = k + 1
    /\ UNCHANGED <<pc, source, document, spec, dirs, handlersFile, typesFile, stdout,
                   stderr, exitCode, handlersCode, types>>
    /\ UNCHANGED inferVars
    /\ UNCHANGED nameVars

\* generateTypes returns; await writeFile(api.d.ts); console.log('Generated api.d.ts')
WriteTypes ==
    /\ pc = "endpoints"
    /\ k = Len(spec.apis)
    /\ \E ok \in BOOLEAN :
          IF ok
          THEN /\ typesFile' = Written(typeDefinitions)
               /\ stdout' = Append(stdout, "Generated api.d.ts")
               /\ pc' = "success"
               /\ UNCHANGED <<stderr, exitCode>>
          ELSE Fail("Error: writeFile failed") /\ UNCHANGED <<typesFile, stdout>>
    /\ UNCHANGED <<source, document, spec, dirs, handlersFile,
                   handlersCode, types, typeDefinitions, k>>
    /\ UNCHANGED inferVars
    /\ UNCHANGED nameVars

\* console.log('Successfully generated mocks and types!'); main returns
ReportSuccess ==
    /\ pc = "success"
    /\ stdout' = Append(stdout, "Successfully generated mocks and types!")
    /\ exitCode' = 0
    /\ pc' = "exited"
    /\ UNCHANGED <<source, document, spec, dirs, handlersFile, typesFile,
                   stderr, handlersCode, types, typeDefinitions, k>>
    /\ UNCHANGED inferVars
    /\ UNCHANGED nameVars

Next ==
    \/ CheckArgs
    \/ ParseApiSpec
    \/ CheckApis
    \/ MkdirMocks
    \/ MkdirTypes
    \/ GenerateHandlers
    \/ WriteHandlers
    \/ CollectTypes
    \/ RenderTypes
    \/ AppendEndpoint
    \/ WriteTypes
    \/ ReportSuccess

Spec == Init /\ [][Next]_vars

-----------------------------------------------------------------------------
(* Properties of a run of main *)

RequestName(api)  == Fragment(api.path) \o RequestSuffix
ResponseName(api) == Fragment(api.path) \o ResponseSuffix

\* the endpoint registers its request type: a body method and a request body
RegistersRequest(api) ==
    /\ Truthy(api.requestBody)
    /\ toLowerCase(api.method) \in {<<"p","o","s","t">>, <<"p","u","t">>, <<"p","a","t","c","h">>}

\* the sample the endpoint offers for the name, if it offers one
Offers(api, name) ==
    \/ name = ResponseName(api)
    \/ name = RequestName(api) /\ RegistersRequest(api)
Offered(api, name) ==
    IF name = ResponseName(api) THEN api.response ELSE api.requestBody

\* how many endpoints the first pass of generateTypes has taken
Collected ==
    IF pc = "collect" THEN k
    ELSE IF pc \in {"endpoints", "success", "exited"} /\ handlersFile.written
         THEN Len(spec.apis)
    ELSE 0

\* C1: the Named Type Table is first-write-wins: every name it holds maps to
\* the sample of the first endpoint, in input order, that offered the name;
\* no name is held twice; every name offered so far is held.
C1_FirstWriteWins ==
    LET apis == SubSeq(spec.apis, 1, Collected)
        names == [i \in 1..Len(types) |-> types[i].name]
        offers == [i \in 1..Len(types) |->
                      [j \in 1..Len(apis) |-> Offers(apis[j], names[i])]]
    IN
    /\ \A i \in 1..Len(types) :
          /\ \E j \in 1..Len(apis) : offers[i][j]
          /\ LET first == CHOOSE j \in 1..Len(apis) :
                              offers[i][j] /\ \A h \in 1..(j - 1) : ~offers[i][h]
             IN  types[i].sample = Offered(apis[first], names[i])
          /\ \A j \in 1..Len(types) : names[j] = names[i] => j = i
    /\ \A j \in 1..Len(apis) :
          /\ HasType(types, ResponseName(apis[j]))
          /\ RegistersRequest(apis[j]) => HasType(types, RequestName(apis[j]))

C1_Witness ==
    /\ pc = "exited" /\ exitCode = 0
    /\ Len(spec.apis) = 2
    /\ spec.apis[1].path = UsersPath /\ spec.apis[2].path = UsersPath
    /\ spec.apis[1].response = Obj(<<"id">>, <<Num(1)>>)
    /\ spec.apis[2].response = Arr(<<UserSample>>)
    /\ types = <<[name |-> <<"U","s","e","r","s">> \o ResponseSuffix,
                  sample |-> Obj(<<"id">>, <<Num(1)>>)]>>

Occurrences(text, piece) == Cardinality({i \in 1..Len(text) : text[i] = piece})
DeclaredNames(doc) == {doc.decls[i].name : i \in 1..Len(doc.decls)}
Supported(api) ==
    toLowerCase(api.method) \in
        {<<"g","e","t">>, <<"p","o","s","t">>, <<"p","u","t">>, <<"p","a","t","c","h">>,
         <<"d","e","l","e","t","e">>}

\* C2 as stated: in a run that succeeds, an endpoint with an unsupported
\* method gets no handler (the handlers are those of the supported
\* endpoints), its response type is declared and, when it has a request
\* body, its request type is declared too.
C2_UnsupportedMethodTypes ==
    (pc = "exited" /\ exitCode = 0) =>
        /\ Occurrences(handlersFile.content, "\n  http.")
              = Cardinality({i \in 1..Len(spec.apis) : Supported(spec.apis[i])})
        /\ \A i \in 1..Len(spec.apis) :
              ~Supported(spec.apis[i]) =>
                  /\ ResponseName(spec.apis[i]) \in DeclaredNames(typesFile.content)
                  /\ Truthy(spec.apis[i].requestBody) =>
                        RequestName(spec.apis[i]) \in DeclaredNames(typesFile.content)

\* C3 as stated: the document has one ApiEndpoints entry per endpoint, in
\* input order, named lower-cased method + fragment, with the request type as
\* its one parameter exactly when the endpoint has a requestBody field, and
\* the response type as its result.
C3_EndpointEntries ==
    (pc = "exited" /\ exitCode = 0) =>
        /\ Len(typesFile.content.endpoints) = Len(spec.apis)
        /\ \A i \in 1..Len(spec.apis) :
              LET api == spec.apis[i]
                  entry == typesFile.content.endpoints[i]
              IN  /\ entry.name = toLowerCase(api.method) \o Fragment(api.path)
                  /\ entry.params = IF api.requestBody.t # "undefined"
                                    THEN <<RequestName(api)>> ELSE <<>>
                  /\ entry.returns = ResponseName(api)

LacksResponse == spec.tag = "array" /\ \E i \in 1..Len(spec.apis) :
                                           spec.apis[i].response.t = "undefined"

\* C8 as stated: a specification with an endpoint that has no response is
\* rejected: the run does not end in success and writes neither document.
C8_MissingResponseRejected ==
    LacksResponse =>
        /\ pc = "exited" => exitCode = 1
        /\ ~handlersFile.written
        /\ ~typesFile.written

BadApis == spec.tag \in {"apisAbsent", "apisNull", "apisFalse", "apisObject", "apisString"}

\* C9: once the parsed specification has apis absent or not an array, the run
\* creates no directory, writes no file and reports no success; it cannot
\* stop before it has exited, and it exits with an error message and status 1.
C9_FatalSpecificationError ==
    BadApis =>
        /\ dirs = {}
        /\ ~handlersFile.written
        /\ ~typesFile.written
        /\ exitCode # 0
        /\ \A i \in 1..Len(stdout) : stdout[i] = "Fetching from URL:"
        /\ pc # "exited" => ENABLED Next
        /\ pc = "exited" => exitCode = 1 /\ stderr # <<>>

C9_Witness ==
    /\ pc = "exited"
    /\ spec.tag = "apisObject"
    /\ exitCode = 1
    /\ stderr = <<"Error: Invalid API specification format. Expected { \"apis\": [...] }">>
    /\ dirs = {}

\* C10 as stated: every type name an ApiEndpoints entry of the written
\* document uses is declared in that document.
C10_NoDanglingReference ==
    typesFile.written =>
        \A i \in 1..Len(typesFile.content.endpoints) :
            LET entry == typesFile.content.endpoints[i] IN
            /\ entry.returns \in DeclaredNames(typesFile.content)
            /\ \A j \in 1..Len(entry.params) :
                   entry.params[j] \in DeclaredNames(typesFile.content)

====
